---- MODULE Spec2Model ----
(***************************************************************************)
(* X25519MLKEM768 hybrid key exchange (rustls-post-quantum/src/lib.rs).    *)
(*                                                                         *)
(* Buffers are sequences of bytes (0..255) with the lengths of the code.   *)
(* The two primitives the crate consumes (the X25519 group of rustls and   *)
(* the ML-KEM-768 KEM of aws-lc-rs) are idealised over a small prime       *)
(* field: they keep the lengths, the failure branches and the algebra      *)
(* (Diffie-Hellman commutes, decapsulation inverts encapsulation, a        *)
(* ciphertext that fails re-encryption yields the implicit-rejection       *)
(* secret) of the real ones.                                               *)
(***************************************************************************)
EXTENDS Integers, Sequences, FiniteSets, TLC

(* ------------------------------- state --------------------------------- *)
VARIABLES
    negotiated,  \* the answer of usable_for_version to the handshake
    ini,         \* the initiator: its phase, start()'s outcome, its Active
    resp,        \* the responder's last start_and_complete call
    prevResp,    \* the call before it
    fin,         \* the initiator's complete call
    provided,    \* the CryptoProvider the last provider() call returned
    hs,          \* concurrent handshakes: each instance's initiator and responder
    codec        \* the last encoding and decoding of a pair of byte strings

handshake == <<negotiated, ini, resp, prevResp, fin>>
vars == <<negotiated, ini, resp, prevResp, fin, provided, hs, codec>>

(* ------------------------------ bounds -------------------------------- *)
\* X25519 private scalars are drawn from 1..MaxScalar
MaxScalar == 2
\* ML-KEM key-generation seeds and encapsulation messages: 1..MaxSeed
MaxSeed == 2
\* the parent provider lists up to MaxGroups key exchange groups
MaxGroups == 3
\* handshakes running at the same time
NumInstances == 2
\* the byte strings handed to the codec are filled from the seeds 0..MaxFill
MaxFill == 1

Scalars == 1..MaxScalar
Seeds == 1..MaxSeed
Instances == 1..NumInstances

(* ------------------------ constants of lib.rs -------------------------- *)
NAMED_GROUP == 4588
INVALID_KEY_SHARE == "PeerMisbehaved::InvalidKeyShare"
FailedToGetRandomBytes == "FailedToGetRandomBytes"
X25519_LEN == 32
MLKEM768_CIPHERTEXT_LEN == 1088
MLKEM768_ENCAP_LEN == 1184
MLKEM768_SECRET_LEN == 32
COMBINED_PUBKEY_LEN == MLKEM768_ENCAP_LEN + X25519_LEN
COMBINED_CIPHERTEXT_LEN == MLKEM768_CIPHERTEXT_LEN + X25519_LEN
COMBINED_SHARED_SECRET_LEN == MLKEM768_SECRET_LEN + X25519_LEN
TLSv1_3 == 772

(* --------------------------- byte helpers ------------------------------ *)
Zeros(n) == [i \in 1..n |-> 0]
ZeroPad31 == Zeros(31)
ZeroPad30 == Zeros(30)
KemKeyPad == Zeros(MLKEM768_ENCAP_LEN - 1)
KemCtPad == Zeros(MLKEM768_CIPHERTEXT_LEN - 2)

\* slice[..n] and slice[n..] of buf.split_at(n)
SplitLeft(buf, n) == SubSeq(buf, 1, n)
SplitRight(buf, n) == SubSeq(buf, n + 1, Len(buf))

(* ------------- the classical exchange provider (X25519) ---------------- *)
\* the toy field standing for GF(2^255 - 19)
FieldPrime == 251
\* the base point u = 9
X25519_BASE == 9

\* the scalar multiplication X25519(k, u)
X25519Mul(k, u) == (k * u) % FieldPrime

\* a field element as 32 little-endian bytes
X25519Encode(u) == <<u>> \o ZeroPad31

\* little-endian decoding of 32 bytes, the top bit of the last byte masked,
\* reduced into the field
RECURSIVE X25519Horner(_, _)
X25519Horner(bytes, i) ==
    IF i > Len(bytes) THEN 0
    ELSE LET b == IF i = X25519_LEN THEN bytes[i] % 128 ELSE bytes[i]
         IN (b + 256 * X25519Horner(bytes, i + 1)) % FieldPrime
X25519Decode(bytes) == X25519Horner(bytes, 1)

X25519PubKey(k) == X25519Encode(X25519Mul(k, X25519_BASE))

\* ActiveKeyExchange::complete of the X25519 group: a peer key of the wrong
\* length or an all-zero agreement is InvalidKeyShare
X25519Complete(k, peer) ==
    IF Len(peer) # X25519_LEN
    THEN [ok |-> FALSE, err |-> INVALID_KEY_SHARE, secret |-> <<>>]
    ELSE LET s == X25519Mul(k, X25519Decode(peer))
         IN IF s = 0
            THEN [ok |-> FALSE, err |-> INVALID_KEY_SHARE, secret |-> <<>>]
            ELSE [ok |-> TRUE, err |-> "", secret |-> X25519Encode(s)]

\* SupportedKxGroup::start of the X25519 group; rngOk is the entropy source
X25519Start(k, rngOk) ==
    IF rngOk
    THEN [ok |-> TRUE, err |-> "", priv |-> k, pub_key |-> X25519PubKey(k)]
    ELSE [ok |-> FALSE, err |-> FailedToGetRandomBytes, priv |-> 0, pub_key |-> <<>>]

\* SupportedKxGroup::start_and_complete of the X25519 group: start, then
\* complete against the peer's key
X25519StartAndComplete(peer, k, rngOk) ==
    LET kx == X25519Start(k, rngOk)
    IN IF ~kx.ok
       THEN [ok |-> FALSE, err |-> kx.err, pub_key |-> <<>>, secret |-> <<>>]
       ELSE LET c == X25519Complete(kx.priv, peer)
            IN IF ~c.ok
               THEN [ok |-> FALSE, err |-> c.err, pub_key |-> <<>>, secret |-> <<>>]
               ELSE [ok |-> TRUE, err |-> "", pub_key |-> kx.pub_key,
                     secret |-> c.secret]

(* ------------------- the KEM provider (ML-KEM-768) --------------------- *)
KEM_BASE == 3

\* the public value of the key generated from seed d
KemPublic(d) == (d * KEM_BASE) % FieldPrime

\* EncapsulationKey::key_bytes: 1184 bytes
KemKeyBytes(e) == <<e>> \o KemKeyPad

\* K-PKE.Encrypt of message m under public value e with randomness r
KemEncrypt(e, m, r) ==
    <<(r * KEM_BASE) % FieldPrime, (m + r * e) % FieldPrime>> \o KemCtPad

\* K-PKE.Decrypt with the private seed d
KemDecrypt(d, ct) == (ct[2] + FieldPrime * FieldPrime - d * ct[1]) % FieldPrime

\* the shared secret derived from the message and the public value
KemDerive(m, e) == <<(5 * m + e) % FieldPrime>> \o ZeroPad30 \o <<0>>

\* the implicit-rejection secret J(z, c)
KemReject(d, ct) == <<(d + ct[1] + ct[2]) % FieldPrime>> \o ZeroPad30 \o <<255>>

\* DecapsulationKey::generate
KemGenerate(d, rngOk) ==
    IF rngOk THEN [ok |-> TRUE, err |-> "", seed |-> d]
    ELSE [ok |-> FALSE, err |-> "Unspecified", seed |-> 0]

\* EncapsulationKey::new: the length and the range of every byte are checked
KemEncapsulationKeyNew(bytes) ==
    IF Len(bytes) # MLKEM768_ENCAP_LEN
    THEN [ok |-> FALSE, err |-> "KeyRejected", e |-> 0]
    ELSE IF \E i \in 1..Len(bytes) : bytes[i] >= FieldPrime
         THEN [ok |-> FALSE, err |-> "KeyRejected", e |-> 0]
         ELSE [ok |-> TRUE, err |-> "", e |-> bytes[1]]

\* EncapsulationKey::encapsulate with the fresh message m
KemEncapsulate(e, m, rngOk) ==
    IF ~rngOk
    THEN [ok |-> FALSE, err |-> "Unspecified", ciphertext |-> <<>>, secret |-> <<>>]
    ELSE [ok |-> TRUE, err |-> "", ciphertext |-> KemEncrypt(e, m, m),
          secret |-> KemDerive(m, e)]

\* DecapsulationKey::decapsulate: decrypt, re-encrypt, compare
KemDecapsulate(d, ct) ==
    IF Len(ct) # MLKEM768_CIPHERTEXT_LEN
    THEN [ok |-> FALSE, err |-> "Unspecified", secret |-> <<>>]
    ELSE LET e == KemPublic(d)
             m == KemDecrypt(d, ct)
         IN IF ct = KemEncrypt(e, m, m)
            THEN [ok |-> TRUE, err |-> "", secret |-> KemDerive(m, e)]
            ELSE [ok |-> TRUE, err |-> "", secret |-> KemReject(d, ct)]

(* ------------------------------ results -------------------------------- *)
\* Result<CompletedKeyExchange, Error> and Result<SharedSecret, Error>, with
\* the unwinding of a panic as a third outcome. decoded records whether the
\* received buffer passed the length check, prims the primitive operations
\* the call invoked, locals what the primitives returned to it.
NoLocals ==
    [x25519_secret |-> <<>>, ml_kem_secret |-> <<>>, x25519_pub_key |-> <<>>,
     ml_kem_share |-> <<>>]
Ok(group, pub_key, secret, prims, locals) ==
    [tag |-> "Ok", err |-> "", group |-> group, pub_key |-> pub_key,
     secret |-> secret, decoded |-> TRUE, prims |-> prims, locals |-> locals]
Err(e, decoded, prims) ==
    [tag |-> "Err", err |-> e, group |-> 0, pub_key |-> <<>>, secret |-> <<>>,
     decoded |-> decoded, prims |-> prims, locals |-> NoLocals]
Panic(decoded, prims) ==
    [tag |-> "Panic", err |-> "", group |-> 0, pub_key |-> <<>>, secret |-> <<>>,
     decoded |-> decoded, prims |-> prims, locals |-> NoLocals]
NoResult ==
    [tag |-> "None", err |-> "", group |-> 0, pub_key |-> <<>>, secret |-> <<>>,
     decoded |-> FALSE, prims |-> {}, locals |-> NoLocals]

(* ------------------------------ the codec ------------------------------ *)
\* a faulty variant: the share split at the offset of a ciphertext
ReceivedShareNewAtCiphertextLen(buf) ==
    IF Len(buf) # COMBINED_PUBKEY_LEN
    THEN [some |-> FALSE, ml_kem |-> <<>>, x25519 |-> <<>>]
    ELSE [some |-> TRUE, ml_kem |-> SplitLeft(buf, MLKEM768_CIPHERTEXT_LEN),
          x25519 |-> SplitRight(buf, MLKEM768_CIPHERTEXT_LEN)]

\* ReceivedShare::new
ReceivedShareNew(buf) ==
    IF Len(buf) # COMBINED_PUBKEY_LEN
    THEN [some |-> FALSE, ml_kem |-> <<>>, x25519 |-> <<>>]
    ELSE [some |-> TRUE, ml_kem |-> SplitLeft(buf, MLKEM768_ENCAP_LEN),
          x25519 |-> SplitRight(buf, MLKEM768_ENCAP_LEN)]

\* a faulty variant: only a buffer that is too short is refused
ReceivedCiphertextNewAtLeast(buf) ==
    IF Len(buf) < COMBINED_CIPHERTEXT_LEN
    THEN [some |-> FALSE, ml_kem |-> <<>>, x25519 |-> <<>>]
    ELSE [some |-> TRUE, ml_kem |-> SplitLeft(buf, MLKEM768_CIPHERTEXT_LEN),
          x25519 |-> SplitRight(buf, MLKEM768_CIPHERTEXT_LEN)]

\* ReceivedCiphertext::new
ReceivedCiphertextNew(buf) ==
    IF Len(buf) # COMBINED_CIPHERTEXT_LEN
    THEN [some |-> FALSE, ml_kem |-> <<>>, x25519 |-> <<>>]
    ELSE [some |-> TRUE, ml_kem |-> SplitLeft(buf, MLKEM768_CIPHERTEXT_LEN),
          x25519 |-> SplitRight(buf, MLKEM768_CIPHERTEXT_LEN)]

\* out[lo..hi].copy_from_slice(src): panics unless the lengths agree
CopyFromSlice(out, lo, hi, src) ==
    IF Len(src) # hi - lo
    THEN [panic |-> TRUE, bytes |-> out]
    ELSE [panic |-> FALSE,
          bytes |-> SubSeq(out, 1, lo) \o src \o SubSeq(out, hi + 1, Len(out))]

\* a faulty variant: the two secrets copied in the order of the arguments
CombinedSecretCombineSwapped(x25519, ml_kem) ==
    LET out == Zeros(COMBINED_SHARED_SECRET_LEN)
        lowCopy == CopyFromSlice(out, 0, X25519_LEN, x25519)
        highCopy == CopyFromSlice(lowCopy.bytes, X25519_LEN,
                                  COMBINED_SHARED_SECRET_LEN, ml_kem)
    IN [panic |-> lowCopy.panic \/ highCopy.panic, bytes |-> highCopy.bytes]

\* CombinedSecret::combine
CombinedSecretCombine(x25519, ml_kem) ==
    LET out == Zeros(COMBINED_SHARED_SECRET_LEN)
        lowCopy == CopyFromSlice(out, 0, MLKEM768_SECRET_LEN, ml_kem)
        highCopy == CopyFromSlice(lowCopy.bytes, MLKEM768_SECRET_LEN,
                                  COMBINED_SHARED_SECRET_LEN, x25519)
    IN [panic |-> lowCopy.panic \/ highCopy.panic, bytes |-> highCopy.bytes]

\* a faulty variant: the X25519 key written before the KEM ciphertext
CombinedShareCombineSwapped(x25519, ml_kem) ==
    LET out == Zeros(COMBINED_CIPHERTEXT_LEN)
        lowCopy == CopyFromSlice(out, 0, X25519_LEN, x25519)
        highCopy == CopyFromSlice(lowCopy.bytes, X25519_LEN,
                                  COMBINED_CIPHERTEXT_LEN, ml_kem)
    IN [panic |-> lowCopy.panic \/ highCopy.panic, bytes |-> highCopy.bytes]

\* a faulty variant: the two byte strings appended to an empty vector
CombinedShareCombineAppend(x25519, ml_kem) ==
    [panic |-> FALSE, bytes |-> ml_kem \o x25519]

\* CombinedShare::combine
CombinedShareCombine(x25519, ml_kem) ==
    LET out == Zeros(COMBINED_CIPHERTEXT_LEN)
        lowCopy == CopyFromSlice(out, 0, MLKEM768_CIPHERTEXT_LEN, ml_kem)
        highCopy == CopyFromSlice(lowCopy.bytes, MLKEM768_CIPHERTEXT_LEN,
                                  COMBINED_CIPHERTEXT_LEN, x25519)
    IN [panic |-> lowCopy.panic \/ highCopy.panic, bytes |-> highCopy.bytes]

(* ------------------------- X25519MLKEM768 ------------------------------ *)
\* the points of start() at which key generation can fail
StartFaults == {"none", "x25519", "generate", "encapsulation_key"}
\* the points of start_and_complete() at which the local entropy can fail
RespondFaults == {"none", "x25519", "encapsulate"}

\* the Active a failed start() does not build, and the slot of a moved-out one
NoActive == [x25519 |-> 0, decap_key |-> 0, combined_pub_key |-> <<>>]

\* a faulty variant: the code point of the X25519 component (0x001d)
name_of_x25519 == X25519_LEN - 3

\* X25519MLKEM768::name
name == NAMED_GROUP

\* Active::group
group(self) == NAMED_GROUP

\* a faulty variant: the share built X25519 key first
StartOpSwapped(k, d, fault) ==
    IF fault # "none"
    THEN [tag |-> "Err", err |-> FailedToGetRandomBytes, active |-> NoActive]
    ELSE [tag |-> "Ok", err |-> "",
          active |-> [x25519 |-> k, decap_key |-> d,
                      combined_pub_key |->
                          X25519PubKey(k) \o KemKeyBytes(KemPublic(d))]]

\* a faulty variant: a failed KEM key generation unwrapped instead of mapped
StartOpUnwrap(k, d, fault) ==
    IF fault = "x25519"
    THEN [tag |-> "Err", err |-> FailedToGetRandomBytes, active |-> NoActive]
    ELSE IF fault # "none"
    THEN [tag |-> "Panic", err |-> "", active |-> NoActive]
    ELSE [tag |-> "Ok", err |-> "",
          active |-> [x25519 |-> k, decap_key |-> d,
                      combined_pub_key |->
                          KemKeyBytes(KemPublic(d)) \o X25519PubKey(k)]]

\* the share of start(): Vec::with_capacity(COMBINED_PUBKEY_LEN), the vector
\* empty, then extend_from_slice of the key bytes and of the X25519 key
StartShare(key_bytes, x25519_pub_key) ==
    LET combined_pub_key == <<>>
    IN (combined_pub_key \o key_bytes) \o x25519_pub_key

\* X25519MLKEM768::start with scalar k, KEM seed d and the fault of the
\* key generation
StartOp(k, d, fault) ==
    LET x25519 == X25519Start(k, fault # "x25519")
        ml_kem == KemGenerate(d, fault # "generate")
    IN IF ~x25519.ok
       THEN [tag |-> "Err", err |-> x25519.err, active |-> NoActive]
       ELSE IF ~ml_kem.ok
       THEN [tag |-> "Err", err |-> FailedToGetRandomBytes, active |-> NoActive]
       ELSE IF fault = "encapsulation_key"
       THEN [tag |-> "Err", err |-> FailedToGetRandomBytes, active |-> NoActive]
       ELSE [tag |-> "Ok", err |-> "",
             active |-> [x25519 |-> x25519.priv, decap_key |-> ml_kem.seed,
                         combined_pub_key |->
                             StartShare(KemKeyBytes(KemPublic(ml_kem.seed)),
                                        x25519.pub_key)]]

\* a faulty variant: the KEM's own errors passed on
EncapsulateUnmapped(ml_kem, m, rngOk) ==
    LET pk == KemEncapsulationKeyNew(ml_kem)
    IN IF ~pk.ok
       THEN [ok |-> FALSE, err |-> pk.err, ciphertext |-> <<>>,
             secret |-> <<>>, prims |-> {"EncapsulationKey::new"}]
       ELSE LET enc == KemEncapsulate(pk.e, m, rngOk)
            IN [ok |-> enc.ok, err |-> enc.err,
                ciphertext |-> enc.ciphertext, secret |-> enc.secret,
                prims |-> {"EncapsulationKey::new", "encapsulate"}]

\* the result of the KEM half of start_and_complete: EncapsulationKey::new,
\* then encapsulate, every error mapped to INVALID_KEY_SHARE
EncapsulateMapped(ml_kem, m, rngOk) ==
    LET pk == KemEncapsulationKeyNew(ml_kem)
    IN IF ~pk.ok
       THEN [ok |-> FALSE, err |-> INVALID_KEY_SHARE, ciphertext |-> <<>>,
             secret |-> <<>>, prims |-> {"EncapsulationKey::new"}]
       ELSE LET enc == KemEncapsulate(pk.e, m, rngOk)
            IN [ok |-> enc.ok,
                err |-> IF enc.ok THEN "" ELSE INVALID_KEY_SHARE,
                ciphertext |-> enc.ciphertext, secret |-> enc.secret,
                prims |-> {"EncapsulationKey::new", "encapsulate"}]

\* X25519MLKEM768::start_and_complete with the responder's fresh scalar k
\* and KEM message m
StartAndCompleteFresh(client_share, k, m, fault) ==
    LET share == ReceivedShareNew(client_share)
    IN IF ~share.some THEN Err(INVALID_KEY_SHARE, FALSE, {})
       ELSE LET x25519 == X25519StartAndComplete(share.x25519, k, fault # "x25519")
            IN IF ~x25519.ok
               THEN Err(x25519.err, TRUE, {"X25519.start_and_complete"})
               ELSE LET kem == EncapsulateMapped(share.ml_kem, m, fault # "encapsulate")
                        prims == {"X25519.start_and_complete"} \cup kem.prims
                    IN IF ~kem.ok THEN Err(kem.err, TRUE, prims)
                       ELSE LET combined_secret ==
                                    CombinedSecretCombine(x25519.secret, kem.secret)
                                combined_share ==
                                    CombinedShareCombine(x25519.pub_key, kem.ciphertext)
                            IN IF combined_secret.panic \/ combined_share.panic
                               THEN Panic(TRUE, prims)
                               ELSE Ok(name, combined_share.bytes,
                                       combined_secret.bytes, prims,
                                       [x25519_secret |-> x25519.secret,
                                        ml_kem_secret |-> kem.secret,
                                        x25519_pub_key |-> x25519.pub_key,
                                        ml_kem_share |-> kem.ciphertext])

\* a faulty variant: the responder keeps the X25519 scalar of its previous call
StartAndCompleteCached(client_share, k, m, fault) ==
    StartAndCompleteFresh(client_share,
                          IF resp.calls >= 1 THEN resp.call.k ELSE k, m, fault)

\* a faulty variant: the X25519 exchange run on the tail of the buffer before
\* its length is looked at
StartAndCompleteEager(client_share, k, m, fault) ==
    LET r == StartAndCompleteFresh(client_share, k, m, fault)
    IN IF ReceivedShareNew(client_share).some THEN r
       ELSE [r EXCEPT !.prims = {"X25519.start_and_complete"}]

\* the unit struct X25519MLKEM768 has no field: a call reads its arguments
\* and the keys it generates
StartAndComplete(client_share, k, m, fault) ==
    StartAndCompleteFresh(client_share, k, m, fault)

\* a faulty variant: every version from TLS 1.3 on
usable_for_version_from(version) == version >= TLSv1_3

\* X25519MLKEM768::usable_for_version
usable_for_version(version) == version = TLSv1_3

\* a faulty variant: the last byte of the KEM ciphertext is not copied into the
\* Ciphertext handed to decapsulate
DecapsulateMappedShort(decap_key, ml_kem) ==
    LET dec == KemDecapsulate(decap_key,
                              SubSeq(ml_kem, 1, Len(ml_kem) - 1) \o <<0>>)
    IN [ok |-> dec.ok, err |-> IF dec.ok THEN "" ELSE INVALID_KEY_SHARE,
        secret |-> dec.secret]

\* the decapsulation of Active::complete, its error mapped
DecapsulateMapped(decap_key, ml_kem) ==
    LET dec == KemDecapsulate(decap_key, ml_kem)
    IN [ok |-> dec.ok, err |-> IF dec.ok THEN "" ELSE INVALID_KEY_SHARE,
        secret |-> dec.secret]

\* Active::complete
Complete(self, peer_pub_key) ==
    LET ciphertext == ReceivedCiphertextNew(peer_pub_key)
    IN IF ~ciphertext.some THEN Err(INVALID_KEY_SHARE, FALSE, {})
       ELSE LET x25519 == X25519Complete(self.x25519, ciphertext.x25519)
            IN IF ~x25519.ok THEN Err(x25519.err, TRUE, {"x25519.complete"})
               ELSE LET ml_kem == DecapsulateMapped(self.decap_key, ciphertext.ml_kem)
                        prims == {"x25519.complete", "decapsulate"}
                    IN IF ~ml_kem.ok THEN Err(ml_kem.err, TRUE, prims)
                       ELSE LET combined ==
                                    CombinedSecretCombine(x25519.secret, ml_kem.secret)
                            IN IF combined.panic THEN Panic(TRUE, prims)
                               ELSE Ok(NAMED_GROUP, <<>>, combined.bytes, prims,
                                       [x25519_secret |-> x25519.secret,
                                        ml_kem_secret |-> ml_kem.secret,
                                        x25519_pub_key |-> <<>>,
                                        ml_kem_share |-> <<>>])

\* Active::pub_key
pub_key(self) == self.combined_pub_key

\* a faulty variant: complete(&self, ..) leaves the Active with the caller
NotMovedOut(self) == self

\* complete(self: Box<Self>, ..) takes the Active by value: the caller's
\* binding is moved out
MovedOut(self) == NoActive

(* ------------------------------ provider() ----------------------------- *)
\* Vec::insert(index, element)
VecInsert(vec, index, element) ==
    SubSeq(vec, 1, index) \o <<element>> \o SubSeq(vec, index + 1, Len(vec))

\* a faulty variant: the group pushed at the end of the list
providerPush(parent) == Append(parent, name)

\* provider(), parent being default_provider().kx_groups; a group is written
\* as its NamedGroup code
provider(parent) == VecInsert(parent, 0, name)

(* --------------------------- the environment --------------------------- *)
\* the classical groups a parent provider can list: secp256r1, secp384r1,
\* secp521r1, X25519, X448
ClassicalGroups == {23, 24, 25, 29, 30}
ParentLists == UNION {[1..n -> ClassicalGroups] : n \in 0..MaxGroups}

\* the protocol versions a handshake can ask about: SSLv2, SSLv3, TLS 1.0 to
\* 1.3, the next code point, DTLS 1.0/1.2/1.3 and the ends of the u16 range
Versions == {0, 2, 768, 769, 770, 771, 772, 773, 65279, 65277, 65276, 65535}

\* what the peer or the network hands to a call in place of the buffer base:
\* the buffer itself, one byte of it flipped, a wrong length, or the X25519
\* half replaced by the all-zero point
LengthKinds == {"empty", "short", "long", "huge"}
PeerBuffer(kind, pos, base, kemLen) ==
    CASE kind = "honest" -> base
      [] kind = "flip" -> [base EXCEPT ![pos] = 255 - base[pos]]
      [] kind = "empty" -> <<>>
      [] kind = "short" -> SubSeq(base, 1, Len(base) - 1)
      [] kind = "long" -> base \o <<0>>
      [] kind = "huge" -> base \o base
      [] kind = "zeroX" -> SubSeq(base, 1, kemLen) \o Zeros(X25519_LEN)

\* the positions of a share the model flips: both ends of both halves
SharePositions ==
    {1, MLKEM768_ENCAP_LEN, MLKEM768_ENCAP_LEN + 1, COMBINED_PUBKEY_LEN}
\* every position of a ciphertext is flipped
CiphertextPositions == 1..COMBINED_CIPHERTEXT_LEN

ShareInputs ==
    {<<"honest", 0>>, <<"zeroX", 0>>}
        \cup {<<kind, 0>> : kind \in LengthKinds}
        \cup {<<"flip", pos>> : pos \in SharePositions}

\* the ciphertext the responder did not produce
NoCiphertext == Zeros(COMBINED_CIPHERTEXT_LEN)

(* ----------------------------- the actions ----------------------------- *)
NoInput == [kind |-> "none", pos |-> 0, len |-> 0]
NoCall == [input |-> NoInput, k |-> 0, m |-> 0, fault |-> "none", res |-> NoResult]

\* the codec not yet applied
NoDecoded == [some |-> FALSE, ml_kem |-> <<>>, x25519 |-> <<>>]
NoCodec ==
    [step |-> "none", raw |-> FALSE, path |-> "none", ml_kem |-> <<>>,
     x25519 |-> <<>>, panic |-> FALSE, out |-> <<>>, dec |-> NoDecoded]

\* one handshake: the initiator's Active, the share and the ciphertext on
\* the wire, the results of its responder and of its complete
NoDelivery == [called |-> FALSE, src |-> 0, res |-> NoResult]
IdleInstance ==
    [phase |-> "Idle", active |-> NoActive, share |-> <<>>,
     resp |-> NoDelivery, fin |-> NoDelivery]

Init ==
    /\ negotiated = [asked |-> FALSE, version |-> 0, usable |-> FALSE,
                     name |-> 0]
    /\ ini = [phase |-> "Idle", tag |-> "None", err |-> "", fault |-> "none",
              group |-> 0, active |-> NoActive]
    /\ resp = [calls |-> 0, call |-> NoCall]
    /\ prevResp = NoCall
    /\ fin = [calls |-> 0, input |-> NoInput, res |-> NoResult]
    /\ provided = [built |-> FALSE, parent |-> <<>>, kx_groups |-> <<>>]
    /\ hs = [i \in Instances |-> IdleInstance]
    /\ codec = NoCodec

\* the handshake reads the group's name() and asks whether the group is
\* usable for the negotiated version
Negotiate(version) ==
    /\ ~negotiated.asked
    /\ negotiated' = [asked |-> TRUE, version |-> version,
                      usable |-> usable_for_version(version), name |-> name]
    /\ UNCHANGED <<ini, resp, prevResp, fin, provided, hs, codec>>

\* the initiator calls start()
Start(k, d, fault) ==
    /\ negotiated.usable
    /\ ini.phase = "Idle"
    /\ LET r == StartOp(k, d, fault)
       IN ini' = [phase |-> IF r.tag = "Ok" THEN "Started" ELSE "Aborted",
                  tag |-> r.tag, err |-> r.err, fault |-> fault,
                  group |-> IF r.tag = "Ok" THEN group(r.active) ELSE 0,
                  active |-> r.active]
    /\ UNCHANGED <<negotiated, resp, prevResp, fin, provided, hs, codec>>

\* one call of the responder's start_and_complete on what arrives for the
\* initiator's share
RespondCall(kind, pos, k, m, fault) ==
    LET buf == PeerBuffer(kind, pos, pub_key(ini.active), MLKEM768_ENCAP_LEN)
    IN [input |-> [kind |-> kind, pos |-> pos, len |-> Len(buf)],
        k |-> k, m |-> m, fault |-> fault,
        res |-> StartAndComplete(buf, k, m, fault)]

Respond(kind, pos, k, m, fault) ==
    /\ ini.phase = "Started"
    /\ resp.calls = 0
    /\ resp' = [calls |-> 1, call |-> RespondCall(kind, pos, k, m, fault)]
    /\ UNCHANGED <<negotiated, ini, prevResp, fin, provided, hs, codec>>

\* a second call of the same responder (the unit struct serves every
\* handshake), its entropy source working
AgainInputs == {<<"honest", 0>>, <<"zeroX", 0>>, <<"empty", 0>>, <<"flip", 1>>}

RespondAgain(kind, pos, k, m, fault) ==
    /\ ini.phase = "Started"
    /\ resp.calls = 1
    /\ resp' = [calls |-> resp.calls + 1,
                call |-> RespondCall(kind, pos, k, m, fault)]
    /\ prevResp' = resp.call
    /\ UNCHANGED <<negotiated, ini, fin, provided, hs, codec>>

\* the initiator calls complete() on what arrives for the responder's
\* ciphertext; the Active is moved into the call
CompleteCall(kind, pos) ==
    /\ ini.active # NoActive
    /\ kind \in {"honest", "flip"} => resp.call.res.tag = "Ok"
    /\ kind = "flip" => resp.call.input.kind = "honest"
    /\ LET base == IF resp.call.res.tag = "Ok" THEN resp.call.res.pub_key
                   ELSE NoCiphertext
           buf == PeerBuffer(kind, pos, base, MLKEM768_CIPHERTEXT_LEN)
           r == Complete(ini.active, buf)
       IN /\ fin' = [calls |-> fin.calls + 1,
                     input |-> [kind |-> kind, pos |-> pos, len |-> Len(buf)],
                     res |-> r]
          /\ ini' = [ini EXCEPT !.phase = IF r.tag = "Ok" THEN "Completed"
                                          ELSE "Aborted",
                                !.active = MovedOut(ini.active)]
    /\ UNCHANGED <<negotiated, resp, prevResp, provided, hs, codec>>

Next ==
    \/ \E version \in Versions : Negotiate(version)
    \/ \E k \in Scalars, d \in Seeds, fault \in StartFaults : Start(k, d, fault)
    \/ \E in \in ShareInputs, k \in Scalars, m \in Seeds, fault \in RespondFaults :
           Respond(in[1], in[2], k, m, fault)
    \/ \E kind \in LengthKinds \cup {"honest", "zeroX"} : CompleteCall(kind, 0)
    \/ \E pos \in CiphertextPositions : CompleteCall("flip", pos)

Spec == Init /\ [][Next]_vars

\* the responder alone, called twice
NextResponder ==
    \/ \E version \in Versions : Negotiate(version)
    \/ \E k \in Scalars, d \in Seeds, fault \in StartFaults : Start(k, d, fault)
    \/ \E in \in ShareInputs, k \in Scalars, m \in Seeds, fault \in RespondFaults :
           Respond(in[1], in[2], k, m, fault)
    \/ \E in \in AgainInputs, k \in Scalars, m \in Seeds :
           RespondAgain(in[1], in[2], k, m, "none")

SpecResponder == Init /\ [][NextResponder]_vars

(* ---------------------- handshakes side by side ------------------------ *)
\* the fresh keys of instance i's responder and the KEM seed of its initiator
ScalarOf(i) == ((i - 1) % MaxScalar) + 1
SeedOf(i) == ((i - 1) % MaxSeed) + 1

\* the instances whose message the network may hand to instance i: its own
\* peer's, or the next handshake's
Sources(i) == {i, (i % NumInstances) + 1}

\* a faulty variant: the Active kept in one process-wide slot that every
\* instance reads
Shared(h, i, new) ==
    [j \in DOMAIN h |-> IF j = i THEN new ELSE [h[j] EXCEPT !.active = new.active]]

\* every key pair and buffer is local to the call chain of one instance:
\* Box::new(Active { .. }) is owned by the caller, the unit struct has no field
Own(h, i, new) == [h EXCEPT ![i] = new]

\* instance i's initiator calls start()
StartI(i, k) ==
    /\ hs[i].phase = "Idle"
    /\ LET r == StartOp(k, SeedOf(i), "none")
       IN hs' = Own(hs, i, [hs[i] EXCEPT !.phase = "Started",
                                         !.active = r.active,
                                         !.share = pub_key(r.active)])
    /\ UNCHANGED <<handshake, provided, codec>>

\* instance i's responder calls start_and_complete on the share instance src
\* sent
RespondI(i, src) ==
    /\ ~hs[i].resp.called
    /\ hs[src].share # <<>>
    /\ LET r == StartAndComplete(hs[src].share, ScalarOf(i), SeedOf(i), "none")
       IN hs' = Own(hs, i, [hs[i] EXCEPT !.resp = [called |-> TRUE, src |-> src,
                                                   res |-> r]])
    /\ UNCHANGED <<handshake, provided, codec>>

\* instance i's initiator calls complete on the ciphertext the responder of
\* instance src sent
CompleteI(i, src) ==
    /\ hs[i].active # NoActive
    /\ hs[src].resp.res.tag = "Ok"
    /\ LET r == Complete(hs[i].active, hs[src].resp.res.pub_key)
       IN hs' = Own(hs, i, [hs[i] EXCEPT !.phase = IF r.tag = "Ok" THEN "Completed"
                                                  ELSE "Aborted",
                                         !.active = MovedOut(hs[i].active),
                                         !.fin = [called |-> TRUE, src |-> src,
                                                  res |-> r]])
    /\ UNCHANGED <<handshake, provided, codec>>

NextConcurrent ==
    \/ \E i \in Instances, k \in Scalars : StartI(i, k)
    \/ \E i \in Instances : \E src \in Sources(i) : RespondI(i, src)
    \/ \E i \in Instances : \E src \in Sources(i) : CompleteI(i, src)

SpecConcurrent == Init /\ [][NextConcurrent]_vars

(* --------------------------- the codec alone --------------------------- *)
\* the byte strings a provider or a peer can hand over: any length, here one
\* below, at and one above the expected one, with distinct contents
LenDeltas == {0 - 1, 0, 1}
Fills == 0..MaxFill
Pattern(n, seed) == [i \in 1..n |-> (seed + 7 * i) % 256]

\* the share of start() built from the bytes of an encapsulation key and of
\* an X25519 public key
EncodeShare(dk, dx, fk, fx) ==
    /\ codec.step = "none"
    /\ LET ml_kem == Pattern(MLKEM768_ENCAP_LEN + dk, fk)
           x25519 == Pattern(X25519_LEN + dx, 128 + fx)
       IN codec' = [codec EXCEPT !.step = "encoded", !.path = "share",
                                 !.ml_kem = ml_kem, !.x25519 = x25519,
                                 !.out = StartShare(ml_kem, x25519)]
    /\ UNCHANGED <<handshake, provided, hs>>

\* the ciphertext of start_and_complete() built by CombinedShare::combine
EncodeCiphertext(dk, dx, fk, fx) ==
    /\ codec.step = "none"
    /\ LET ml_kem == Pattern(MLKEM768_CIPHERTEXT_LEN + dk, fk)
           x25519 == Pattern(X25519_LEN + dx, 128 + fx)
           combined == CombinedShareCombine(x25519, ml_kem)
       IN codec' = [codec EXCEPT !.step = "encoded", !.path = "ciphertext",
                                 !.ml_kem = ml_kem, !.x25519 = x25519,
                                 !.panic = combined.panic,
                                 !.out = IF combined.panic THEN <<>>
                                         ELSE combined.bytes]
    /\ UNCHANGED <<handshake, provided, hs>>

\* the decoder of the other side applied to the buffer
Received(path, buf) ==
    IF path = "share" THEN ReceivedShareNew(buf) ELSE ReceivedCiphertextNew(buf)

\* the emitted buffer is received
Decode ==
    /\ codec.step = "encoded"
    /\ ~codec.panic
    /\ codec' = [codec EXCEPT !.step = "decoded",
                              !.dec = Received(codec.path, codec.out)]
    /\ UNCHANGED <<handshake, provided, hs>>

\* a buffer no encoder of this crate made is received
DecodeRaw(path, len, fill) ==
    /\ codec.step = "none"
    /\ LET buf == Pattern(len, fill)
       IN codec' = [codec EXCEPT !.step = "decoded", !.raw = TRUE,
                                 !.path = path, !.out = buf,
                                 !.dec = Received(path, buf)]
    /\ UNCHANGED <<handshake, provided, hs>>

NextCodec ==
    \/ \E dk \in LenDeltas, dx \in LenDeltas, fk \in Fills, fx \in Fills :
           EncodeShare(dk, dx, fk, fx)
    \/ \E dk \in LenDeltas, dx \in LenDeltas, fk \in Fills, fx \in Fills :
           EncodeCiphertext(dk, dx, fk, fx)
    \/ Decode
    \/ \E d \in LenDeltas \cup {0 - COMBINED_PUBKEY_LEN}, fill \in Fills :
           DecodeRaw("share", COMBINED_PUBKEY_LEN + d, fill)
    \/ \E d \in LenDeltas \cup {0 - COMBINED_CIPHERTEXT_LEN}, fill \in Fills :
           DecodeRaw("ciphertext", COMBINED_CIPHERTEXT_LEN + d, fill)

SpecCodec == Init /\ [][NextCodec]_vars

\* a program calls provider()
Provide(parent) ==
    /\ provided' = [built |-> TRUE, parent |-> parent,
                    kx_groups |-> provider(parent)]
    /\ UNCHANGED <<handshake, hs, codec>>

NextProvider == \E parent \in ParentLists : Provide(parent)

SpecProvider == Init /\ [][NextProvider]_vars

(* ------------------------------ properties ----------------------------- *)
AnyComplete ==
    \E kind \in LengthKinds \cup {"honest", "zeroX", "flip"},
       pos \in {0} \cup CiphertextPositions : CompleteCall(kind, pos)

\* C1: round trip. When the responder answers the initiator's unmodified
\* 1216-byte share with a ciphertext and a secret, and complete is called on
\* that unmodified 1120-byte ciphertext, complete succeeds with the
\* responder's secret, 64 bytes long.
C1_RoundTrip ==
    (/\ resp.call.input.kind = "honest"
     /\ resp.call.res.tag = "Ok"
     /\ fin.calls >= 1
     /\ fin.input.kind = "honest")
    => /\ fin.res.tag = "Ok"
       /\ fin.res.secret = resp.call.res.secret
       /\ Len(fin.res.secret) = 64
       /\ Len(resp.call.res.secret) = 64
       /\ resp.call.input.len = 1216
       /\ Len(resp.call.res.pub_key) = 1120
       /\ fin.input.len = 1120

C1_Witness ==
    /\ resp.call.input.kind = "honest"
    /\ resp.call.res.tag = "Ok"
    /\ fin.input.kind = "honest"
    /\ fin.res.tag = "Ok"
    /\ fin.res.locals.ml_kem_secret # fin.res.locals.x25519_secret

SecretLayout(r) ==
    r.tag = "Ok"
    => /\ Len(r.secret) = 64
       /\ Len(r.locals.ml_kem_secret) = 32
       /\ SubSeq(r.secret, 1, 32) = r.locals.ml_kem_secret
       /\ SubSeq(r.secret, 33, 64) = r.locals.x25519_secret

C3_SecretLayout == SecretLayout(fin.res) /\ SecretLayout(resp.call.res)

C3_Witness ==
    /\ fin.res.tag = "Ok"
    /\ resp.call.res.tag = "Ok"
    /\ fin.res.locals.ml_kem_secret # fin.res.locals.x25519_secret
    /\ resp.call.res.locals.ml_kem_secret # resp.call.res.locals.x25519_secret

\* C4: wire ordering. The share of a started initiator is the 1184 bytes of
\* its encapsulation key followed by its 32-byte X25519 public key; the
\* ciphertext of the responder is the 1088 bytes of the KEM ciphertext
\* followed by the responder's 32-byte X25519 public key.
C4_WireOrdering ==
    /\ ini.phase = "Started"
       => LET share == pub_key(ini.active)
          IN /\ Len(share) = 1216
             /\ SubSeq(share, 1, 1184) = KemKeyBytes(KemPublic(ini.active.decap_key))
             /\ SubSeq(share, 1185, 1216) = X25519PubKey(ini.active.x25519)
    /\ resp.call.res.tag = "Ok"
       => LET r == resp.call.res
          IN /\ Len(r.pub_key) = 1120
             /\ Len(r.locals.ml_kem_share) = 1088
             /\ SubSeq(r.pub_key, 1, 1088) = r.locals.ml_kem_share
             /\ SubSeq(r.pub_key, 1089, 1120) = X25519PubKey(resp.call.k)

C4_Witness ==
    /\ ini.phase = "Started"
    /\ resp.call.res.tag = "Ok"
    /\ resp.call.input.kind = "honest"

\* C5: length rejection. The received share is decoded exactly when it is
\* 1216 bytes long and the received ciphertext exactly when it is 1120 bytes
\* long; for any other length the call returns INVALID_KEY_SHARE and has
\* handed no part of the buffer to a primitive.
LengthRejection(calls, input, r, expected) ==
    calls >= 1
    => /\ r.decoded <=> input.len = expected
       /\ input.len # expected
          => r.tag = "Err" /\ r.err = INVALID_KEY_SHARE /\ r.prims = {}

C5_LengthRejection ==
    /\ LengthRejection(fin.calls, fin.input, fin.res, 1120)
    /\ LengthRejection(resp.calls, resp.call.input, resp.call.res, 1216)

C5_Witness ==
    /\ fin.calls = 1
    /\ fin.input.len = 1121
    /\ resp.calls = 1
    /\ resp.call.input.len = 1215

\* C6: single use. An Active is consumed by at most one complete call: once
\* complete has been called, with a secret or with an error, the initiator
\* holds no Active and no complete call is possible.
C6_SingleUse ==
    /\ fin.calls <= 1
    /\ fin.calls = 1
       => /\ ini.active = NoActive
          /\ ini.phase \in {"Completed", "Aborted"}
          /\ ~ENABLED AnyComplete

\* a complete that failed in a primitive
C6_Witness ==
    /\ fin.calls = 1
    /\ fin.res.tag = "Err"
    /\ fin.res.decoded
    /\ ini.phase = "Aborted"

\* C7: tamper detection. complete on the responder's ciphertext with one
\* byte flipped (every bit of it inverted) does not panic and returns
\* INVALID_KEY_SHARE or a secret other than the responder's.
C7_TamperDetection ==
    (fin.calls >= 1 /\ fin.input.kind = "flip")
    => \/ fin.res.tag = "Err" /\ fin.res.err = INVALID_KEY_SHARE
       \/ fin.res.tag = "Ok" /\ fin.res.secret # resp.call.res.secret

\* the last byte of the KEM half flipped
C7_Witness ==
    /\ fin.input.kind = "flip"
    /\ fin.input.pos = 1088
    /\ fin.res.tag = "Ok"
    /\ resp.call.res.tag = "Ok"

\* C8: atomic responder. A call of start_and_complete ends with an error and
\* neither ciphertext nor secret, or with a 1120-byte ciphertext and a
\* 64-byte secret made from the keys generated in that call; two calls with
\* the same share and the same fresh keys end alike, whatever came between.
SameArguments(a, b) ==
    /\ a.input = b.input
    /\ a.k = b.k
    /\ a.m = b.m
    /\ a.fault = b.fault

C8_AtomicResponder ==
    resp.calls >= 1
    => LET r == resp.call.res
       IN /\ r.tag \in {"Ok", "Err"}
          /\ r.tag = "Err" => r.pub_key = <<>> /\ r.secret = <<>>
          /\ r.tag = "Ok"
             => /\ Len(r.pub_key) = 1120
                /\ Len(r.secret) = 64
                /\ SubSeq(r.pub_key, 1089, 1120) = X25519PubKey(resp.call.k)
                /\ r.pub_key[1] = (resp.call.m * KEM_BASE) % FieldPrime
          /\ SameArguments(prevResp, resp.call) => prevResp.res = r

\* a second call that differs from the first in the fresh scalar
C8_Witness ==
    /\ resp.calls = 2
    /\ resp.call.res.tag = "Ok"
    /\ prevResp.res.tag = "Ok"
    /\ prevResp.input = resp.call.input
    /\ prevResp.k # resp.call.k

\* C9: single negotiable version. usable_for_version answers true for TLS
\* 1.3 (0x0304) and false for every other version.
C9_SingleVersion ==
    negotiated.asked => (negotiated.usable <=> negotiated.version = 772)

C9_Witness ==
    /\ negotiated.asked
    /\ negotiated.version = 773
    /\ ~negotiated.usable

C11_StableGroup ==
    /\ negotiated.asked => negotiated.name = 4588
    /\ ini.tag = "Ok" => ini.group = 4588
    /\ resp.call.res.tag = "Ok" => resp.call.res.group = 4588
    /\ prevResp.res.tag = "Ok" => prevResp.res.group = 4588

\* the responder answered a share it did not get unmodified
C11_Witness ==
    /\ negotiated.asked
    /\ ini.tag = "Ok"
    /\ resp.call.res.tag = "Ok"
    /\ resp.call.input.kind = "flip"
    /\ resp.call.res.group = negotiated.name

\* C12: negotiation preference. The list of the provider provider() returns
\* has X25519MLKEM768 first and then the parent's groups in the parent's
\* order, one entry more than the parent: the hybrid group comes before every
\* classical group.
C12_ProviderOrder ==
    provided.built
    => LET groups == provided.kx_groups
           parent == provided.parent
       IN /\ Len(groups) = Len(parent) + 1
          /\ groups[1] = 4588
          /\ \A i \in 1..Len(parent) : groups[i + 1] = parent[i]
          /\ \A i \in 1..Len(groups) : groups[i] \in ClassicalGroups => 1 < i

\* a parent of three groups, X25519 first
C12_Witness ==
    /\ provided.built
    /\ Len(provided.parent) = 3
    /\ provided.parent[1] = 29
    /\ provided.kx_groups[2] = 29

\* C13: instance isolation. With several handshakes interleaved, a step
\* changes the state of one instance only; an initiator's Active is consumed
\* only in a step that is its own complete; and an instance that got its own
\* share and its own ciphertext unmodified ends with the secret of its
\* responder.
IsolatedStep ==
    \A i \in Instances :
        hs'[i] # hs[i]
        => /\ \A j \in Instances \ {i} : hs'[j] = hs[j]
           /\ hs'[i].active # hs[i].active
              => \/ hs[i].phase = "Idle" /\ hs'[i].phase = "Started"
                 \/ /\ ~hs[i].fin.called
                    /\ hs'[i].fin.called
                    /\ hs'[i].active = NoActive

OwnPeersAgree ==
    \A i \in Instances :
        (hs[i].fin.called /\ hs[i].fin.src = i /\ hs[i].resp.src = i)
        => /\ hs[i].fin.res.tag = "Ok"
           /\ hs[i].fin.res.secret = hs[i].resp.res.secret

C13_Isolation == [][IsolatedStep /\ OwnPeersAgree']_vars

\* instance 1 completed with its own peer while instance 2 was handed the
\* ciphertext of instance 1
C13_Witness ==
    /\ hs[1].fin.called
    /\ hs[1].fin.src = 1
    /\ hs[1].resp.src = 1
    /\ hs[1].fin.res.tag = "Ok"
    /\ hs[2].fin.called
    /\ hs[2].fin.src # 2
    /\ hs[2].fin.res.secret # hs[1].fin.res.secret

\* C14 as stated: every encoding path emits a buffer of the expected length
\* (1216 for the share, 1120 for the ciphertext) whatever the lengths of the
\* byte strings the providers supplied.
ExpectedLen(path) == IF path = "share" THEN 1216 ELSE 1120

C14_EveryPathFixedLength ==
    (codec.step # "none" /\ ~codec.raw /\ ~codec.panic)
    => Len(codec.out) = ExpectedLen(codec.path)

\* C14, amended: the ciphertext is built in a buffer pre-sized to 1120 bytes
\* by two fixed-offset copies, so an emitted ciphertext is 1120 bytes long
\* and a provider byte string of another length panics in the copy; the
\* share of start() is the two provider byte strings appended to an empty
\* vector, so its length is the sum of their lengths, 1216 for the 1184 and
\* 32 bytes of the providers.
C14_EncodedLength ==
    (codec.step # "none" /\ ~codec.raw)
    => /\ codec.path = "ciphertext"
          => /\ codec.panic <=> (Len(codec.ml_kem) # 1088 \/ Len(codec.x25519) # 32)
             /\ ~codec.panic => Len(codec.out) = 1120
       /\ codec.path = "share"
          => /\ ~codec.panic
             /\ Len(codec.out) = Len(codec.ml_kem) + Len(codec.x25519)
             /\ (Len(codec.ml_kem) = 1184 /\ Len(codec.x25519) = 32)
                => Len(codec.out) = 1216

\* a share made from key bytes one byte short
C14_Witness ==
    /\ codec.step = "encoded"
    /\ codec.path = "share"
    /\ Len(codec.ml_kem) = 1183
    /\ Len(codec.x25519) = 32
    /\ Len(codec.out) = 1215

\* C15: codec round trip. Decoding what CombinedShare::combine made of a
\* 1088-byte KEM ciphertext and a 32-byte X25519 key returns the two; decoding
\* the share start() makes of a 1184-byte encapsulation key and a 32-byte
\* X25519 key returns the two; the two parts of any decoded buffer have the
\* lengths of the two halves and their concatenation is the buffer.
C15_CodecRoundTrip ==
    codec.step = "decoded"
    => /\ (/\ ~codec.raw
           /\ Len(codec.ml_kem) = (IF codec.path = "share" THEN 1184 ELSE 1088)
           /\ Len(codec.x25519) = 32)
          => /\ codec.dec.some
             /\ codec.dec.ml_kem = codec.ml_kem
             /\ codec.dec.x25519 = codec.x25519
       /\ codec.dec.some
          => /\ Len(codec.out) = ExpectedLen(codec.path)
             /\ Len(codec.dec.ml_kem) = ExpectedLen(codec.path) - 32
             /\ Len(codec.dec.x25519) = 32
             /\ codec.dec.ml_kem \o codec.dec.x25519 = codec.out

\* a share of start() decoded
C15_Witness ==
    /\ codec.step = "decoded"
    /\ ~codec.raw
    /\ codec.path = "share"
    /\ codec.dec.some
    /\ codec.dec.ml_kem = codec.ml_kem
    /\ codec.dec.ml_kem # SubSeq(codec.out, 1, 1088)

\* C16: the length check precedes all primitive work. A call of
\* start_and_complete or of complete on a buffer of a wrong length returns
\* INVALID_KEY_SHARE having invoked no primitive and computed nothing; a call
\* that invoked any primitive had decoded a buffer of the expected length.
CheckedBeforePrimitives(calls, input, r, expected) ==
    calls >= 1
    => /\ input.len # expected => r = Err(INVALID_KEY_SHARE, FALSE, {})
       /\ r.prims # {} => r.decoded /\ input.len = expected
       /\ r.tag \in {"Ok", "Panic"} => r.prims # {}

C16_LengthCheckFirst ==
    /\ CheckedBeforePrimitives(resp.calls, resp.call.input, resp.call.res,
                               COMBINED_PUBKEY_LEN)
    /\ CheckedBeforePrimitives(fin.calls, fin.input, fin.res,
                               COMBINED_CIPHERTEXT_LEN)

\* the responder ran its primitives on a well-sized share and the initiator
\* turned down a ciphertext one byte short
C16_Witness ==
    /\ resp.calls = 1
    /\ resp.call.input.len = COMBINED_PUBKEY_LEN
    /\ resp.call.res.prims = {"X25519.start_and_complete",
                               "EncapsulationKey::new", "encapsulate"}
    /\ fin.calls = 1
    /\ fin.input.len = COMBINED_CIPHERTEXT_LEN - 1
    /\ fin.res.prims = {}
    /\ fin.res.err = INVALID_KEY_SHARE

====
